---- MODULE Spec2Model ----
(***************************************************************************)
(* Model of app.py, the insurance client-record manager: the field cipher  *)
(* (encrypt_text / decrypt_text), the credential check (login_user), the   *)
(* record store operations (add_client / get_clients / delete_client) and  *)
(* the per-session script main() that drives them.                         *)
(*                                                                         *)
(* Text is a sequence of character codes.  A Python date is a record       *)
(* [year, month, day].  The remote store is the pair (users, clients).     *)
(***************************************************************************)
EXTENDS Integers, Sequences, FiniteSets, TLC

VARIABLES
    users,      \* rows of the store's table "users"
    clients,    \* rows of the store's table "clients"
    nextId,     \* the next id the store assigns to an inserted row
    today,      \* datetime.now().date()
    session,    \* st.session_state and the position of main(), per browser session
    lastOp,     \* what the last operation was given and what it gave back
    deleted,    \* history: ids whose delete_client call has completed
    created     \* history: id -> the agent under which add_client inserted it

vars == <<users, clients, nextId, today, session, lastOp, deleted, created>>

----------------------------------------------------------------------------
(* Bounds of the model.                                                    *)

\* ids the store hands out in one behaviour
MaxId == 2
\* longest plaintext given to the cipher
MaxPlainLen == 3
\* longest stored token that is probed
MaxTokenLen == 4
\* largest distance in days between today and an expiry date that is probed
MaxDelta == 32

----------------------------------------------------------------------------
(* Small helpers.                                                          *)

RECURSIVE SumSeq(_)
SumSeq(s) == IF s = <<>> THEN 0 ELSE Head(s) + SumSeq(Tail(s))

SeqsUpTo(S, n) == UNION {[1..k -> S] : k \in 0..n}

\* Python's None
None == [none |-> TRUE]

----------------------------------------------------------------------------
(* Field cipher: cipher_suite = Fernet(ENCRYPTION_KEY), encrypt_text and   *)
(* decrypt_text.  A Fernet token is version || iv || ciphertext || hmac;   *)
(* the model keeps that layout over a small alphabet: a keyed stream       *)
(* cipher that depends on the iv, and a keyed checksum over the rest.      *)

\* size of the character alphabet
CharMod == 3
Chars == 0..(CharMod - 1)

\* the first byte of every Fernet token (0x80)
FernetVersion == 128

\* st.secrets["general"]["encryption_key"]: its signing and encryption halves
ENCRYPTION_KEY == [signing |-> 1, encryption |-> 2]

\* os.urandom for the iv of one token
IVs == Chars

Plaintexts == SeqsUpTo(Chars, MaxPlainLen)

\* the constant decrypt_text returns when decryption fails: "[解密失敗]"
SENTINEL == <<91, 35299, 23494, 22833, 25943, 93>>

FernetMac(key, body) == (SumSeq(body) + key.signing) % CharMod

FernetEncrypt(key, data, iv) ==
    LET ct   == [i \in 1..Len(data) |-> (data[i] + key.encryption + iv + i) % CharMod]
        body == <<FernetVersion, iv>> \o ct
    IN  body \o <<FernetMac(key, body)>>

\* the conditions under which Fernet.decrypt raises InvalidToken
FernetInvalid(key, token) ==
    \/ Len(token) < 3
    \/ token[1] # FernetVersion
    \/ \E i \in 2..Len(token) : token[i] \notin Chars
    \/ token[Len(token)] # FernetMac(key, SubSeq(token, 1, Len(token) - 1))

FernetDecrypt(key, token) ==
    LET iv == token[2]
        n  == Len(token) - 3
    IN  [i \in 1..n |->
            (token[i + 2] + CharMod - ((key.encryption + iv + i) % CharMod)) % CharMod]

encrypt_text(text, iv) ==
    IF text = <<>> THEN <<>> ELSE FernetEncrypt(ENCRYPTION_KEY, text, iv)

\* variant: the token's hmac is not verified before it is decrypted
decrypt_text_unverified(text) ==
    IF Len(text) < 3 \/ text[1] # FernetVersion
    THEN SENTINEL
    ELSE FernetDecrypt(ENCRYPTION_KEY, text)

decrypt_text(text) ==
    IF FernetInvalid(ENCRYPTION_KEY, text)
    THEN SENTINEL
    ELSE FernetDecrypt(ENCRYPTION_KEY, text)

----------------------------------------------------------------------------
(* Credentials: hash_password and check_password (bcrypt).  A bcrypt hash  *)
(* carries its salt in front of the digest; checkpw recomputes the digest  *)
(* with the salt it reads from the stored hash.                            *)

\* bcrypt.gensalt()
Salts == Chars

BcryptDigest(password, salt) ==
    [i \in 1..Len(password) |-> (password[i] + salt + i) % CharMod]

hash_password(password, salt) == <<salt>> \o BcryptDigest(password, salt)

check_password(password, hashed) ==
    /\ Len(hashed) >= 1
    /\ hashed = <<hashed[1]>> \o BcryptDigest(password, hashed[1])

----------------------------------------------------------------------------
(* Dates: str(expiry), datetime.strptime(..., "%Y-%m-%d").date() and the   *)
(* subtraction of two dates, as Python's datetime computes them.           *)

Date(y, m, d) == [year |-> y, month |-> m, day |-> d]

IsLeap(y) == (y % 4 = 0) /\ ((y % 100 # 0) \/ (y % 400 = 0))

DaysInMonth(y, m) ==
    IF m = 2 THEN (IF IsLeap(y) THEN 29 ELSE 28)
    ELSE IF m \in {4, 6, 9, 11} THEN 30 ELSE 31

DaysBeforeYear(y) ==
    LET p == y - 1 IN p * 365 + (p \div 4) - (p \div 100) + (p \div 400)

RECURSIVE DaysBeforeMonth(_, _)
DaysBeforeMonth(y, m) ==
    IF m <= 1 THEN 0 ELSE DaysBeforeMonth(y, m - 1) + DaysInMonth(y, m - 1)

\* date.toordinal()
ToOrdinal(dt) == DaysBeforeYear(dt.year) + DaysBeforeMonth(dt.year, dt.month) + dt.day

\* the character "-" of an ISO date, beside the digits 0..9
Dash == 45

\* str(date): "YYYY-MM-DD"
DateStr(dt) ==
    << (dt.year \div 1000) % 10, (dt.year \div 100) % 10,
       (dt.year \div 10) % 10, dt.year % 10, Dash,
       dt.month \div 10, dt.month % 10, Dash,
       dt.day \div 10, dt.day % 10 >>

\* whether datetime.strptime(s, "%Y-%m-%d") raises ValueError
StrptimeRaises(s) ==
    \/ Len(s) # 10
    \/ s[5] # Dash \/ s[8] # Dash
    \/ \E i \in {1, 2, 3, 4, 6, 7, 9, 10} : s[i] \notin 0..9
    \/ LET y == s[1] * 1000 + s[2] * 100 + s[3] * 10 + s[4]
           m == s[6] * 10 + s[7]
           d == s[9] * 10 + s[10]
       IN  \/ y < 1
           \/ m \notin 1..12
           \/ d < 1
           \/ (m \in 1..12 /\ d > DaysInMonth(y, m))

\* datetime.strptime(s, "%Y-%m-%d").date()
Strptime(s) ==
    Date(s[1] * 1000 + s[2] * 100 + s[3] * 10 + s[4], s[6] * 10 + s[7], s[9] * 10 + s[10])

\* (expiry_date - today).days
DaysBetween(expiry_date, tdy) == ToOrdinal(expiry_date) - ToOrdinal(tdy)

\* date + timedelta(days=1) and date - timedelta(days=1)
NextDay(dt) ==
    IF dt.day < DaysInMonth(dt.year, dt.month) THEN Date(dt.year, dt.month, dt.day + 1)
    ELSE IF dt.month < 12 THEN Date(dt.year, dt.month + 1, 1)
    ELSE Date(dt.year + 1, 1, 1)

PrevDay(dt) ==
    IF dt.day > 1 THEN Date(dt.year, dt.month, dt.day - 1)
    ELSE IF dt.month > 1 THEN Date(dt.year, dt.month - 1, DaysInMonth(dt.year, dt.month - 1))
    ELSE Date(dt.year - 1, 12, 31)

RECURSIVE AddDays(_, _)
AddDays(dt, k) ==
    IF k = 0 THEN dt
    ELSE IF k > 0 THEN AddDays(NextDay(dt), k - 1)
    ELSE AddDays(PrevDay(dt), k + 1)


----------------------------------------------------------------------------
(* The store's tables and the functions that call it.  A call of the store *)
(* either answers or raises (network or backend failure): `up` is that     *)
(* outcome, chosen by the environment for each call.                       *)

UserRow(username, full_name, password_hash) ==
    [username |-> username, full_name |-> full_name, password_hash |-> password_hash]

\* what a function gave back: a value, or an exception that left it
Returned(v) == [raised |-> FALSE, value |-> v]
Raised == [raised |-> TRUE, value |-> None]

\* supabase.table("users").select("*").eq("username", username).execute().data
SelectUsers(tbl, username) == {u \in tbl : u.username = username}

\* variant: the stored row is accepted without check_password
login_user_unchecked(tbl, up, username, password) ==
    IF ~up THEN Raised
    ELSE LET data == SelectUsers(tbl, username)
         IN  IF data = {} THEN Returned(<<FALSE, None>>)
             ELSE Returned(<<TRUE, CHOOSE u \in data : TRUE>>)

\* variant: a wrong password is reported apart from an unknown username
login_user_distinguishing(tbl, up, username, password) ==
    IF ~up THEN Raised
    ELSE LET data == SelectUsers(tbl, username)
         IN  IF data = {} THEN Returned(<<FALSE, None>>)
             ELSE LET user_data == CHOOSE u \in data : TRUE
                  IN  IF check_password(password, user_data.password_hash)
                      THEN Returned(<<TRUE, user_data>>)
                      ELSE Returned(<<FALSE, user_data>>)

login_user(tbl, up, username, password) ==
    IF ~up THEN Raised
    ELSE LET data == SelectUsers(tbl, username)
         IN  IF data = {} THEN Returned(<<FALSE, None>>)
             ELSE LET user_data == CHOOSE u \in data : TRUE
                  IN  IF check_password(password, user_data.password_hash)
                      THEN Returned(<<TRUE, user_data>>)
                      ELSE Returned(<<FALSE, None>>)

\* the payload of add_client, with the id the store assigns on insert
Payload(id, agent_user, name, iv_name, plate, iv_plate, phone, expiry, insurance_type, notes) ==
    [id              |-> id,
     agent_username  |-> agent_user,
     encrypted_name  |-> encrypt_text(name, iv_name),
     encrypted_plate |-> encrypt_text(plate, iv_plate),
     phone_number    |-> phone,
     expiry_date     |-> DateStr(expiry),
     insurance_type  |-> insurance_type,
     notes           |-> notes]

\* supabase.table("clients").insert(payload).execute()
InsertClient(tbl, row) == tbl \cup {row}

\* add_client: the table after the call and the value returned
add_client(tbl, up, row) ==
    IF up THEN [table |-> InsertClient(tbl, row), result |-> TRUE]
    ELSE [table |-> tbl, result |-> FALSE]

\* variant: the query without its .eq("agent_username", ...) filter
SelectClientsUnfiltered(tbl, agent_user) == tbl

\* .eq("agent_username", agent_user)
SelectClients(tbl, agent_user) == {r \in tbl : r.agent_username = agent_user}

\* the position of an ISO date string in the order of .order("expiry_date")
OrderKey(r) ==
    LET e == r.expiry_date
    IN  IF Len(e) = 10
        THEN (e[1] * 1000 + e[2] * 100 + e[3] * 10 + e[4]) * 10000
             + (e[6] * 10 + e[7]) * 100 + e[9] * 10 + e[10]
        ELSE 0

Before(a, b) == OrderKey(a) < OrderKey(b) \/ (OrderKey(a) = OrderKey(b) /\ a.id < b.id)

\* rows as the store returns them for .order("expiry_date") (ties by id)
RECURSIVE OrderRows(_)
OrderRows(rows) ==
    IF rows = {} THEN <<>>
    ELSE LET first == CHOOSE r \in rows : \A o \in rows \ {r} : Before(r, o)
         IN  <<first>> \o OrderRows(rows \ {first})

\* the three-way status of get_clients
UrgentDays == 30

\* variant: the upper limit of the urgent class is exclusive
Status_exclusive(days_left) ==
    IF days_left < 0 THEN "EXPIRED"
    ELSE IF days_left < UrgentDays THEN "URGENT"
    ELSE "OK"

Status(days_left) ==
    IF days_left < 0 THEN "EXPIRED"
    ELSE IF days_left <= UrgentDays THEN "URGENT"
    ELSE "OK"

\* one entry of processed_data
ProcessRow(row, tdy) ==
    LET expiry_date == Strptime(row.expiry_date)
        days_left   == DaysBetween(expiry_date, tdy)
    IN  [ID            |-> row.id,
         Status        |-> Status(days_left),
         Name          |-> decrypt_text(row.encrypted_name),
         InsuranceType |-> row.insurance_type,
         Plate         |-> decrypt_text(row.encrypted_plate),
         Expiry        |-> row.expiry_date,
         DaysLeft      |-> days_left,
         Phone         |-> row.phone_number,
         Notes         |-> row.notes]

\* get_clients: the frame returned and whether st.error reported a failure
get_clients(tbl, up, tdy, agent_user) ==
    IF ~up THEN [df |-> <<>>, error |-> TRUE]
    ELSE LET data == OrderRows(SelectClients(tbl, agent_user))
         IN  IF data = <<>> THEN [df |-> <<>>, error |-> FALSE]
             ELSE IF \E i \in DOMAIN data : StrptimeRaises(data[i].expiry_date)
             THEN [df |-> <<>>, error |-> TRUE]
             ELSE [df |-> [i \in DOMAIN data |-> ProcessRow(data[i], tdy)], error |-> FALSE]

\* variant: .lte("id", client_id) in place of .eq
delete_client_lte(tbl, client_id) == {r \in tbl : r.id > client_id}

\* variant: the delete request is built and never executed
delete_client_unexecuted(tbl, client_id) == tbl

\* delete_client: supabase.table("clients").delete().eq("id", client_id).execute()
delete_client(tbl, client_id) == {r \in tbl : r.id # client_id}

\* whether `sub` occurs in `text` (Series.str.contains)
Contains(text, sub) ==
    \E i \in 0..(Len(text) - Len(sub)) : SubSeq(text, i + 1, i + Len(sub)) = sub

RECURSIVE FilterRows(_, _)
FilterRows(df, term) ==
    IF df = <<>> THEN <<>>
    ELSE LET rest == FilterRows(Tail(df), term)
         IN  IF Contains(Head(df).Name, term) \/ Contains(Head(df).Plate, term)
             THEN <<Head(df)>> \o rest ELSE rest

\* display_df of main: df, filtered when a search term is given
DisplayDf(df, search_term) == IF search_term = <<>> THEN df ELSE FilterRows(df, search_term)


----------------------------------------------------------------------------
(* main(): one browser session's st.session_state and the script run it is *)
(* in.  Every interaction starts a run; a run of a logged-in session calls *)
(* get_clients first (pc becomes "listed") and then handles the widget     *)
(* that started it, so other sessions' store calls may fall in between.    *)

Sessions == {"s1", "s2"}

\* rows of table "users" present when the program starts
RegisteredUsers ==
    { UserRow("alice", "Alice", hash_password(<<1>>, 0)),
      UserRow("bob", "Bob", hash_password(<<2>>, 1)) }

\* what the login form is filled with
LoginNames == {"alice", "bob", "carol"}
LoginPasswords == {<<1>>, <<2>>}

\* what the add-client form is filled with
FormNames == {<<>>, <<1>>}
FormPlates == {<<2>>}
FormPhones == {<<>>}
FormTypes == {"mandatory"}
FormNotes == {<<>>}
SearchTerms == {<<>>, <<1>>}
\* the ivs os.urandom gives while records are added through the form; the
\* cipher is exercised over all of IVs in SpecCipher
FormIVs == {1}

Today0 == Date(2024, 2, 28)
FormExpiries == {PrevDay(Today0), AddDays(Today0, 2)}

\* history: no agent's password has been verified in the session
NoAgent == ""

\* st.session_state as lines 159-161 create it, and a run not started
NewSession ==
    [logged_in |-> FALSE, user_info |-> <<>>, pc |-> "idle", df |-> <<>>, auth |-> NoAgent]

\* lines 175-182: the login form is submitted
SubmitLogin(s) ==
    /\ ~session[s].logged_in
    /\ \E u_name \in LoginNames, p_word \in LoginPasswords, up \in BOOLEAN :
         LET res      == login_user(users, up, u_name, p_word)
             success  == ~res.raised /\ res.value[1]
             verified == \E u \in users :
                             u.username = u_name /\ check_password(p_word, u.password_hash)
         IN  /\ session' = [session EXCEPT ![s] =
                    IF success
                    THEN [@ EXCEPT !.logged_in = TRUE, !.user_info = res.value[2],
                                   !.auth = IF verified THEN u_name ELSE NoAgent]
                    ELSE @]
             /\ lastOp' = [op |-> "login", s |-> s, success |-> success,
                           raised |-> res.raised]
    /\ UNCHANGED <<users, clients, nextId, today, deleted, created>>

\* line 192: a run of a logged-in session starts and lists the agent's records
Render(s) ==
    /\ session[s].logged_in
    /\ session[s].pc = "idle"
    /\ \E up \in BOOLEAN :
         LET user == session[s].user_info
             r    == get_clients(clients, up, today, user.username)
         IN  /\ session' = [session EXCEPT ![s].pc = "listed", ![s].df = r.df]
             /\ lastOp' = [op |-> "list", s |-> s, agent |-> user.username,
                           logged_in |-> session[s].logged_in, auth |-> session[s].auth,
                           up |-> up, result |-> r]
    /\ UNCHANGED <<users, clients, nextId, today, deleted, created>>

\* lines 249-273: the delete button of the selected row is pressed
ClickDelete(s) ==
    /\ session[s].logged_in
    /\ session[s].pc = "listed"
    /\ session[s].df # <<>>
    /\ \E search_term \in SearchTerms, up \in BOOLEAN :
         LET display_df == DisplayDf(session[s].df, search_term)
         IN  \E selected_client_idx \in DOMAIN display_df :
               LET sel_row == display_df[selected_client_idx]
                   after   == IF up THEN delete_client(clients, sel_row.ID) ELSE clients
               IN  /\ clients' = after
                   /\ deleted' = IF up THEN deleted \cup {sel_row.ID} ELSE deleted
                   /\ lastOp' = [op |-> "delete", s |-> s,
                                 agent |-> session[s].user_info.username,
                                 id |-> sel_row.ID, raised |-> ~up,
                                 removed |-> clients \ after]
    /\ session' = [session EXCEPT ![s].pc = "idle", ![s].df = <<>>]
    /\ UNCHANGED <<users, nextId, today, created>>

\* lines 298-306: the add-client form is submitted
SubmitAdd(s) ==
    /\ session[s].logged_in
    /\ session[s].pc = "listed"
    /\ nextId <= MaxId
    /\ \E c_name \in FormNames, c_plate \in FormPlates, c_phone \in FormPhones,
          c_expiry \in FormExpiries, c_type \in FormTypes, c_notes \in FormNotes,
          iv_name \in FormIVs, iv_plate \in FormIVs, up \in BOOLEAN :
         LET user == session[s].user_info
             row  == Payload(nextId, user.username, c_name, iv_name, c_plate, iv_plate,
                             c_phone, c_expiry, c_type, c_notes)
             r    == add_client(clients, up, row)
         IN  IF c_name # <<>> /\ c_plate # <<>>
             THEN /\ clients' = r.table
                  /\ nextId' = IF r.result THEN nextId + 1 ELSE nextId
                  /\ created' = IF r.result THEN Append(created, user.username) ELSE created
                  /\ session' = [session EXCEPT ![s].pc = "idle", ![s].df = <<>>]
                  /\ lastOp' = [op |-> "add", s |-> s, agent |-> user.username,
                                logged_in |-> session[s].logged_in,
                                auth |-> session[s].auth, up |-> up,
                                result |-> r.result,
                                added |-> Cardinality(r.table) - Cardinality(clients)]
             ELSE /\ session' = [session EXCEPT ![s].pc = "idle", ![s].df = <<>>]
                  /\ lastOp' = [op |-> "add_rejected", s |-> s]
                  /\ UNCHANGED <<clients, nextId, created>>
    /\ UNCHANGED <<users, today, deleted>>

\* lines 315-318: the logout button is pressed
ClickLogout(s) ==
    /\ session[s].logged_in
    /\ session[s].pc = "listed"
    /\ session' = [session EXCEPT ![s] = [@ EXCEPT !.logged_in = FALSE, !.user_info = <<>>,
                                                   !.pc = "idle", !.df = <<>>]]
    /\ lastOp' = [op |-> "logout", s |-> s]
    /\ UNCHANGED <<users, clients, nextId, today, deleted, created>>

\* the run ends with no button pressed
EndRun(s) ==
    /\ session[s].pc = "listed"
    /\ session' = [session EXCEPT ![s].pc = "idle", ![s].df = <<>>]
    /\ lastOp' = [op |-> "end", s |-> s]
    /\ UNCHANGED <<users, clients, nextId, today, deleted, created>>

Init ==
    /\ users = RegisteredUsers
    /\ clients = {}
    /\ nextId = 1
    /\ today = Today0
    /\ session = [s \in Sessions |-> NewSession]
    /\ lastOp = [op |-> "init"]
    /\ deleted = {}
    /\ created = <<>>

Next ==
    \E s \in Sessions :
        \/ SubmitLogin(s)
        \/ Render(s)
        \/ ClickDelete(s)
        \/ SubmitAdd(s)
        \/ ClickLogout(s)
        \/ EndRun(s)

Spec == Init /\ [][Next]_vars


----------------------------------------------------------------------------
(* Properties of the sessions and the record store, checked under Spec.    *)

ListedIds(df) == {df[i].ID : i \in DOMAIN df}

\* C1: get_clients(A) returns only records that were created under A: after
\* any creates and deletes by any agents, no record created under another
\* agent appears in A's listing.
C1_ListingOnlyOwnRecords ==
    /\ lastOp.op = "list" =>
         \A i \in DOMAIN lastOp.result.df :
             /\ lastOp.result.df[i].ID \in DOMAIN created
             /\ created[lastOp.result.df[i].ID] = lastOp.agent
    /\ \A s \in Sessions :
         \A i \in DOMAIN session[s].df :
             created[session[s].df[i].ID] = session[s].user_info.username

\* C1 witness: agent A lists its records while the store also holds a record
\* created under another agent.
C1_Witness ==
    /\ lastOp.op = "list"
    /\ lastOp.result.df # <<>>
    /\ \E r \in clients : r.agent_username # lastOp.agent

\* C2: a delete requested by agent A removes only records whose
\* agent_username is A, never a record of another agent.
C2_DeleteOnlyOwnRecords ==
    lastOp.op = "delete" =>
        \A r \in lastOp.removed :
            /\ r.agent_username = lastOp.agent
            /\ created[r.id] = lastOp.agent

\* C2 witness: a delete removed a record while another agent's record was in
\* the store.
C2_Witness ==
    /\ lastOp.op = "delete"
    /\ lastOp.removed # {}
    /\ \E r \in clients : r.agent_username # lastOp.agent

\* C6: a read of the store that fails never raises to the caller: the record
\* listing gives an empty frame and reports the error, and so does the
\* credential lookup of login_user.
C6_FailedReadsNeverRaise ==
    /\ (lastOp.op = "list" /\ ~lastOp.up) =>
           (lastOp.result.df = <<>> /\ lastOp.result.error)
    /\ lastOp.op = "login" => ~lastOp.raised

\* C9 as stated: every requested create adds exactly one record, and a listing
\* made after a delete of id i completed never returns id i.
C9_CreateAddsExactlyOne ==
    /\ lastOp.op = "add" => lastOp.added = 1
    /\ lastOp.op = "list" => ListedIds(lastOp.result.df) \cap deleted = {}

\* C9 amended: every requested create adds at most one record, and exactly
\* one whenever add_client returns True; and a listing made after a delete of
\* id i completed never returns id i.
C9_NoDuplicateNoResurrection ==
    /\ lastOp.op = "add" =>
         /\ lastOp.added \in {0, 1}
         /\ lastOp.result => lastOp.added = 1
    /\ lastOp.op = "list" => ListedIds(lastOp.result.df) \cap deleted = {}
    /\ \A r \in clients : r.id \notin deleted
    /\ \A r1, r2 \in clients : r1.id = r2.id => r1 = r2

\* C9 witness: the agent lists its records after one of its ids was deleted
\* and another record was created.
C9_Witness ==
    /\ lastOp.op = "list"
    /\ lastOp.result.df # <<>>
    /\ \E i \in deleted : created[i] = lastOp.agent

\* C10: a session is logged in only with user_info the stored row of the
\* agent whose password the most recent successful login verified; list and
\* create are issued only while logged in, with that agent's username as the
\* owner; a failed login leaves the session logged out; logout resets the
\* session, and a logged-out session has no run that reaches the store.
C10_SessionInvariant ==
    /\ \A s \in Sessions :
         /\ session[s].logged_in =>
              /\ session[s].user_info \in users
              /\ session[s].auth = session[s].user_info.username
         /\ ~session[s].logged_in =>
              /\ session[s].user_info = <<>>
              /\ session[s].pc = "idle"
    /\ lastOp.op \in {"list", "add"} =>
         /\ lastOp.logged_in
         /\ lastOp.agent = lastOp.auth
    /\ (lastOp.op = "login" /\ ~lastOp.success) => ~session[lastOp.s].logged_in
    /\ lastOp.op = "logout" =>
         /\ ~session[lastOp.s].logged_in
         /\ session[lastOp.s].user_info = <<>>

\* C10 witness: a session that logged in and created a record has logged out.
C10_Witness ==
    /\ lastOp.op = "logout"
    /\ session[lastOp.s].auth # NoAgent
    /\ \E i \in DOMAIN created : created[i] = session[lastOp.s].auth


----------------------------------------------------------------------------
(* The functions on their own: each specification below starts from the    *)
(* inputs of one function, drawn from bounded sets, and applies it.        *)

\* the variables a function call does not read
Quiet ==
    /\ nextId = 1
    /\ session = [s \in Sessions |-> NewSession]
    /\ deleted = {}
    /\ created = <<>>

----------------------------------------------------------------------------
(* encrypt_text followed by decrypt_text.                                  *)

InitCipher ==
    /\ Quiet
    /\ users = {}
    /\ clients = {}
    /\ today = Today0
    /\ lastOp \in {[op |-> "plain", text |-> p, iv |-> iv] : p \in Plaintexts, iv \in IVs}

EncryptCall ==
    /\ lastOp.op = "plain"
    /\ lastOp' = [op |-> "encrypted", text |-> lastOp.text, iv |-> lastOp.iv,
                  token |-> encrypt_text(lastOp.text, lastOp.iv)]
    /\ UNCHANGED <<users, clients, nextId, today, session, deleted, created>>

DecryptCall ==
    /\ lastOp.op = "encrypted"
    /\ lastOp' = [op |-> "decrypted", text |-> lastOp.text, iv |-> lastOp.iv,
                  token |-> lastOp.token, out |-> decrypt_text(lastOp.token)]
    /\ UNCHANGED <<users, clients, nextId, today, session, deleted, created>>

NextCipher == EncryptCall \/ DecryptCall

SpecCipher == InitCipher /\ [][NextCipher]_vars

\* C3: for every plaintext p, the empty string included,
\* decrypt_text(encrypt_text(p)) = p, and encrypt_text("") = "".
C3_RoundTrip ==
    /\ lastOp.op = "decrypted" => lastOp.out = lastOp.text
    /\ (lastOp.op \in {"encrypted", "decrypted"} /\ lastOp.text = <<>>) => lastOp.token = <<>>


----------------------------------------------------------------------------
(* get_clients over stored rows: rows whose encrypted fields hold any      *)
(* token (SpecCorrupt), and rows whose expiry date lies any number of days *)
(* before or after today (SpecStatus).                                     *)

\* any text a stored encrypted field may hold: tokens of this key, of another
\* key, truncated or altered ones
Tokens == SeqsUpTo(Chars \cup {FernetVersion}, MaxTokenLen)

IntactRow(id, agent_user, expiry) ==
    Payload(id, agent_user, <<1>>, 0, <<2>>, 1, <<>>, expiry, "mandatory", <<>>)

\* alice's row 1 with the given stored tokens, beside an intact row of alice
\* and an intact row of bob
CorruptTable(name_token, plate_token) ==
    { [IntactRow(1, "alice", AddDays(Today0, 5)) EXCEPT
          !.encrypted_name = name_token, !.encrypted_plate = plate_token],
      IntactRow(2, "alice", Today0),
      IntactRow(3, "bob", Today0) }

InitCorrupt ==
    /\ Quiet
    /\ users = RegisteredUsers
    /\ today = Today0
    /\ \E t \in Tokens, field \in {"name", "plate", "both"} :
         clients = CorruptTable(
             IF field = "plate" THEN encrypt_text(<<1>>, 0) ELSE t,
             IF field = "name" THEN encrypt_text(<<2>>, 1) ELSE t)
    /\ lastOp = [op |-> "stored", delta |-> 5]

ProbeTodays == {Date(2024, 2, 28), Date(2023, 12, 15), Date(2023, 2, 10), Date(2100, 2, 1)}

InitStatus ==
    /\ Quiet
    /\ users = RegisteredUsers
    /\ today \in ProbeTodays
    /\ \E k \in (0 - MaxDelta)..MaxDelta :
         /\ clients = {IntactRow(1, "alice", AddDays(today, k))}
         /\ lastOp = [op |-> "stored", delta |-> k]

\* one call of get_clients
ListCall ==
    /\ lastOp.op = "stored"
    /\ \E agent_user \in {"alice", "bob"}, up \in BOOLEAN :
         lastOp' = [op |-> "list", agent |-> agent_user, up |-> up, delta |-> lastOp.delta,
                    result |-> get_clients(clients, up, today, agent_user)]
    /\ UNCHANGED <<users, clients, nextId, today, session, deleted, created>>

NextListing == ListCall

SpecCorrupt == InitCorrupt /\ [][NextListing]_vars

SpecStatus == InitStatus /\ [][NextListing]_vars

\* what a stored token decrypts to when it was made by Fernet under the key
\* of the process, and the sentinel when it was not
ExpectedText(token) ==
    LET n     == Len(token) - 3
        made  == IF n < 0 THEN {}
                 ELSE {p \in [1..n -> Chars] :
                          \E iv \in IVs : FernetEncrypt(ENCRYPTION_KEY, p, iv) = token}
    IN  IF made = {} THEN SENTINEL ELSE CHOOSE p \in made : TRUE

\* C8: decrypt_text returns the sentinel for every malformed or foreign token
\* and never raises, so a listing the store answers holds one row for every
\* stored record of the owner, with the sentinel in place of each field that
\* failed to decrypt.
C8_CorruptFieldKeepsListing ==
    (lastOp.op = "list" /\ lastOp.up) =>
        LET own == {r \in clients : r.agent_username = lastOp.agent}
            df  == lastOp.result.df
        IN  /\ ~lastOp.result.error
            /\ Len(df) = Cardinality(own)
            /\ \A r \in own :
                 \E i \in DOMAIN df :
                     /\ df[i].ID = r.id
                     /\ df[i].Name = ExpectedText(r.encrypted_name)
                     /\ df[i].Plate = ExpectedText(r.encrypted_plate)

\* C8 witness: a listing of two rows, one with the sentinel as its name and
\* one decrypted.
C8_Witness ==
    /\ lastOp.op = "list"
    /\ Len(lastOp.result.df) = 2
    /\ \E i, j \in DOMAIN lastOp.result.df :
         /\ lastOp.result.df[i].Name = SENTINEL
         /\ lastOp.result.df[i].Plate # SENTINEL
         /\ lastOp.result.df[j].Name = <<1>>

\* C4: for every listed record days_left = expiry_date - today in whole days;
\* the status is EXPIRED exactly when days_left < 0, URGENT exactly when
\* 0 <= days_left <= 30 and OK exactly when days_left > 30, so the day before
\* today is EXPIRED, today and today + 30 are URGENT and today + 31 is OK.
C4_StatusClassification ==
    lastOp.op = "list" =>
        \A i \in DOMAIN lastOp.result.df :
            LET row == lastOp.result.df[i]
            IN  /\ row.DaysLeft = lastOp.delta
                /\ row.Status \in {"EXPIRED", "URGENT", "OK"}
                /\ row.Status = "EXPIRED" <=> row.DaysLeft < 0
                /\ row.Status = "URGENT" <=> (0 <= row.DaysLeft /\ row.DaysLeft <= 30)
                /\ row.Status = "OK" <=> row.DaysLeft > 30
                /\ lastOp.delta = 0 - 1 => row.Status = "EXPIRED"
                /\ lastOp.delta \in {0, 30} => row.Status = "URGENT"
                /\ lastOp.delta = 31 => row.Status = "OK"

\* C4 witness: a record that expires 30 days after today is listed.
C4_Witness ==
    /\ lastOp.op = "list"
    /\ lastOp.delta = 30
    /\ lastOp.result.df # <<>>
    /\ lastOp.result.df[1].Status = "URGENT"

----------------------------------------------------------------------------
(* login_user over any table of registered agents.                         *)

RowsOf(username, full_name) ==
    {UserRow(username, full_name, hash_password(p, salt)) :
        p \in LoginPasswords, salt \in Salts}

\* the tables "users" can hold: at most one row for each username
UserTables ==
    {a \cup b : a \in {{}} \cup {{r} : r \in RowsOf("alice", "Alice")},
                b \in {{}} \cup {{r} : r \in RowsOf("bob", "Bob")}}

InitLogin ==
    /\ Quiet
    /\ users \in UserTables
    /\ clients = {}
    /\ today = Today0
    /\ lastOp \in {[op |-> "credentials", username |-> u, password |-> p] :
                      u \in LoginNames, p \in LoginPasswords}

LoginCall ==
    /\ lastOp.op = "credentials"
    /\ \E up \in BOOLEAN :
         lastOp' = [op |-> "login_user", username |-> lastOp.username,
                    password |-> lastOp.password, up |-> up, before |-> users,
                    result |-> login_user(users, up, lastOp.username, lastOp.password)]
    /\ UNCHANGED <<users, clients, nextId, today, session, deleted, created>>

NextLogin == LoginCall

SpecLogin == InitLogin /\ [][NextLogin]_vars

\* C5: a login_user call that returns succeeds, with the full stored row of
\* the agent, exactly when a row with that username exists and the password
\* verifies against its password_hash; for an absent username and for a wrong
\* password it returns the same (False, None); and the stored users are as
\* they were before the call.
C5_LoginIffVerified ==
    (lastOp.op = "login_user" /\ ~lastOp.result.raised) =>
        LET value == lastOp.result.value
            rows  == {u \in users : u.username = lastOp.username}
            good  == {u \in rows : check_password(lastOp.password, u.password_hash)}
        IN  /\ value[1] <=> good # {}
            /\ value[1] => value[2] \in good
            /\ ~value[1] => value = <<FALSE, None>>
            /\ users = lastOp.before

\* C5 witness: the username exists and the password is wrong.
C5_Witness ==
    /\ lastOp.op = "login_user"
    /\ ~lastOp.result.raised
    /\ \E u \in users :
         u.username = lastOp.username /\ ~check_password(lastOp.password, u.password_hash)
    /\ lastOp.result.value = <<FALSE, None>>


----------------------------------------------------------------------------
(* Registration.  app.py defines hash_password and holds no caller of it;  *)
(* register is modelled from the specification's section 4.1: it fails     *)
(* with AlreadyExists when the username is present, and otherwise stores   *)
(* the row with the salted hash of the password.                           *)

\* variant: an existing row is replaced by the new registration
register_upsert(tbl, username, full_name, password, salt) ==
    [table  |-> {u \in tbl : u.username # username}
                    \cup {UserRow(username, full_name, hash_password(password, salt))},
     result |-> "ok"]

register(tbl, username, full_name, password, salt) ==
    IF SelectUsers(tbl, username) # {}
    THEN [table |-> tbl, result |-> "AlreadyExists"]
    ELSE [table  |-> tbl \cup {UserRow(username, full_name, hash_password(password, salt))},
          result |-> "ok"]

RegisterNames == {"alice", "bob"}
RegisterFullNames == {"A", "B"}

InitRegister ==
    /\ Quiet
    /\ users = {}
    /\ clients = {}
    /\ today = Today0
    /\ lastOp = [op |-> "init"]

RegisterCall ==
    /\ \E username \in RegisterNames, full_name \in RegisterFullNames,
          password \in LoginPasswords, salt \in Salts :
         LET r == register(users, username, full_name, password, salt)
         IN  /\ users' = r.table
             /\ lastOp' = [op |-> "register", username |-> username,
                           password |-> password, before |-> users, result |-> r.result]
    /\ UNCHANGED <<clients, nextId, today, session, deleted, created>>

NextRegister == RegisterCall

SpecRegister == InitRegister /\ [][NextRegister]_vars

\* C7: registering a username that is already in the users store fails with
\* AlreadyExists and leaves the store as it was, the stored password_hash of
\* that username included; so once a username is registered every later
\* registration of it fails.
C7_DuplicateRegistrationRejected ==
    /\ lastOp.op = "register" =>
         /\ (\E u \in lastOp.before : u.username = lastOp.username) =>
                (lastOp.result = "AlreadyExists" /\ users = lastOp.before)
         /\ (\A u \in lastOp.before : u.username # lastOp.username) =>
                (/\ lastOp.result = "ok"
                 /\ lastOp.before \subseteq users
                 /\ \E u \in users \ lastOp.before :
                        /\ u.username = lastOp.username
                        /\ users = lastOp.before \cup {u})
    /\ \A u1, u2 \in users : u1.username = u2.username => u1 = u2

\* C7 witness: a registered username is registered again with another
\* password, and the call fails.
C7_Witness ==
    /\ lastOp.op = "register"
    /\ lastOp.result = "AlreadyExists"
    /\ \E u \in users :
         /\ u.username = lastOp.username
         /\ ~check_password(lastOp.password, u.password_hash)


====
